---- MODULE Spec2Model ----
(***************************************************************************)
(* Scroll synchronisation of the markdown editor (src/app/page.tsx,        *)
(* MarkdownEditor).  The component keeps one boolean state cell,           *)
(* isScrolling, two element refs and a fire-and-forget release timer.      *)
(*                                                                         *)
(* React state is a snapshot: syncScroll reads the value of isScrolling    *)
(* that the last render bound into its closure (useCallback with the       *)
(* dependency [isScrolling]); setIsScrolling only stores the next value,   *)
(* which becomes visible to the handlers at the next render.  The model    *)
(* keeps both: isScrolling is the snapshot the handlers read,              *)
(* nextIsScrolling is the value held by the state cell.                    *)
(*                                                                         *)
(* Offsets are whole pixels.  scrollPercentage and targetScrollTop are     *)
(* exact rationals <<numerator, denominator>>; the browser clamps the      *)
(* argument of scrollTo to the target's scrollable range and snaps it to   *)
(* a whole pixel, downwards or upwards, the same way for the whole run.    *)
(***************************************************************************)
EXTENDS Integers, Sequences, FiniteSets, TLC

\* ---------------------------------------------------------------- bounds
\* clientHeight of both surfaces (the panes are equally high)
ViewportHeight == 2
\* largest scrollable range scrollHeight - clientHeight of a surface
MaxScrollRange == 2
\* a user-driven scroll may transiently leave the scrollable range by this much
MaxOvershoot == 1
\* release timers that may be pending at once
MaxTimers == 2

Surface == {"editor", "preview"}

Other(s) == IF s = "editor" THEN "preview" ELSE "editor"

\* content one pixel shorter than the viewport, as high, or up to
\* MaxScrollRange higher
ScrollHeights == (ViewportHeight - 1)..(ViewportHeight + MaxScrollRange)

ClientHeights == {ViewportHeight}

Offsets == 0..(MaxScrollRange + MaxOvershoot)

\* file selections that may be waiting for their notice at one time
MaxSelections == 2

\* navigator.clipboard.writeText promises that may be in flight at one time
MaxClipboardWrites == 1

\* the initial buffer
DefaultMarkdown == "default"

\* texts of the files a user can select
FileTexts == {"# Hi", "# Other", "PNG"}

\* texts the user can type
TypedTexts == {"typed"}

Max(a, b) == IF a >= b THEN a ELSE b

Min(a, b) == IF a <= b THEN a ELSE b

\* floor and ceiling of the rational <<n, d>>, d >= 1
Floor(q) == q[1] \div q[2]

Ceil(q) == -((-q[1]) \div q[2])

VARIABLES
    lifecycle,        \* "constructed", "mounted" or "unmounted"
    ref,              \* ref[s]: editorRef.current / previewRef.current is non-null
    scrollTop,        \* scrollTop[s]
    scrollHeight,     \* scrollHeight[s]
    clientHeight,     \* clientHeight[s]
    isScrolling,      \* the snapshot of the state that syncScroll closes over
    nextIsScrolling,  \* the value held by the state cell (last setIsScrolling)
    timers,           \* number of pending setTimeout callbacks
    pendingScroll,    \* pendingScroll[s]: "none", or the origin of the scroll
                      \* event waiting to be dispatched to s: "user" or "sync"
    lastSource,       \* source argument of the last syncScroll call, or "none"
    outcome,          \* how that call ended: "suppressed" (returned at the
                      \* guard), "missing" (a ref was null), "pass" (scrollTo
                      \* was called); "none" before the first call and after
                      \* a new layout
    scrollPercentage, \* scrollPercentage computed by that call, if a pass
    targetScrollTop,  \* targetScrollTop it handed to scrollTo, if a pass
    lastScrolled,     \* the surface the user scrolled last, "none" before the
                      \* first scroll and after a new layout
    snapMode,         \* how this browser snaps a fractional position to a
                      \* whole pixel: "down" or "up"
    markdown,         \* the markdown buffer (useState(defaultMarkdown))
    reads,            \* reads[t]: FileReader reads in flight for a file whose
                      \* text is t
    owed,             \* file selections that have produced no notice yet
    lastNotice,       \* title of the last toast, "none" before the first
    lastIntent,       \* the text the most recent user action asked for
    clipboardWrites,  \* navigator.clipboard.writeText promises in flight
    uncaught,         \* an exception has left a handler uncaught
    editorTheme,      \* 'light' | 'dark'
    previewTheme      \* 'light' | 'dark'

vars == <<lifecycle, ref, scrollTop, scrollHeight, clientHeight, isScrolling,
          nextIsScrolling, timers, pendingScroll, lastSource, outcome,
          scrollPercentage, targetScrollTop, lastScrolled, snapMode,
          markdown, reads, owed, lastNotice, lastIntent, clipboardWrites,
          uncaught, editorTheme, previewTheme>>

\* what the buffer, file, clipboard and theme handlers work on
ioVars == <<markdown, reads, owed, lastNotice, lastIntent, clipboardWrites,
            uncaught, editorTheme, previewTheme>>

\* what syncScroll, its timer and the surfaces work on
syncVars == <<lifecycle, ref, scrollTop, scrollHeight, clientHeight,
              isScrolling, nextIsScrolling, timers, pendingScroll, lastSource,
              outcome, scrollPercentage, targetScrollTop, lastScrolled,
              snapMode>>

surfaceVars == <<scrollTop, scrollHeight, clientHeight>>

passVars == <<lastSource, outcome, scrollPercentage, targetScrollTop>>

\* the record of a call that computed nothing
NoPass(source, how) ==
    /\ lastSource' = source
    /\ outcome' = how
    /\ scrollPercentage' = <<0, 1>>
    /\ targetScrollTop' = <<0, 1>>

\* the record of a call that returned at the guard: "kept" when it follows a
\* pass of the same source with nothing changed in between (the values of
\* that pass stay on record), "suppressed" otherwise
Suppressed(source) ==
    IF lastSource = source /\ outcome \in {"pass", "kept"}
    THEN /\ outcome' = "kept"
         /\ UNCHANGED <<lastSource, scrollPercentage, targetScrollTop>>
    ELSE NoPass(source, "suppressed")

\* ------------------------------------------------------ the browser (DOM)
\* the scrollable range the browser clamps a programmatic scroll to
ScrollRange(s) == Max(0, scrollHeight[s] - clientHeight[s])

SnapModes == {"down", "up"}

\* variant: the position is moved by q (scrollBy) instead of set to q
SnappedRelative(t, q) ==
    { Min(Max(scrollTop[t] + p, 0), ScrollRange(t)) :
         p \in {IF snapMode = "down" THEN Floor(q) ELSE Ceil(q)} }

\* the position a scrollTo({top: q}) on surface t ends at: q snapped to a
\* whole pixel the way this browser does and clamped to the scrollable
\* range of t
Snapped(t, q) ==
    { Min(Max(p, 0), ScrollRange(t)) :
         p \in {IF snapMode = "down" THEN Floor(q) ELSE Ceil(q)} }

\* the scroll event a surface has pending after its position was written
Coalesce(old, origin) == IF old = "user" THEN "user" ELSE origin

\* ------------------------------------------------------------- syncScroll
\* variant: the divisor is taken from scrollHeight alone
ScrollPercentageNoViewport(top, sh, ch) == <<top, Max(1, sh)>>

\* variant: the operands of the subtraction are exchanged
ScrollPercentageSwapped(top, sh, ch) == <<top, Max(1, ch - sh)>>

\* scrollPercentage = src.scrollTop / Math.max(1, src.scrollHeight - src.clientHeight)
ScrollPercentageOf(top, sh, ch) == <<top, Max(1, sh - ch)>>

\* variant: the target range is floored at 1 like the divisor
TargetScrollTopFloorOne(pct, sh, ch) == <<pct[1] * Max(1, sh - ch), pct[2]>>

\* variant: the target range is not floored
TargetScrollTopNoFloor(pct, sh, ch) == <<pct[1] * (sh - ch), pct[2]>>

\* targetScrollTop = scrollPercentage * Math.max(0, tgt.scrollHeight - tgt.clientHeight)
TargetScrollTopOf(pct, sh, ch) == <<pct[1] * Max(0, sh - ch), pct[2]>>

\* variant: the guard is missing
LockHeldNever == FALSE

\* `if (isScrolling) return`
LockHeld == isScrolling

\* variant: a suppressed call releases the lock before it returns
GuardedReturnReleases(source) ==
    /\ nextIsScrolling' = FALSE
    /\ UNCHANGED <<timers, surfaceVars>>
    /\ Suppressed(source)
    /\ pendingScroll' = [pendingScroll EXCEPT ![source] = "none"]

\* the early `return`: nothing is written
GuardedReturn(source) ==
    /\ UNCHANGED <<nextIsScrolling, timers, surfaceVars>>
    /\ Suppressed(source)
    /\ pendingScroll' = [pendingScroll EXCEPT ![source] = "none"]

\* `editorRef.current && previewRef.current` (both branches test both refs)
SurfacesAvailable == ref["editor"] /\ ref["preview"]

\* the body of syncScroll(source)
SyncScroll(source) ==
    IF LockHeld
    THEN GuardedReturn(source)
    ELSE /\ nextIsScrolling' = TRUE
         /\ timers' = timers + 1
         /\ UNCHANGED <<scrollHeight, clientHeight>>
         /\ IF SurfacesAvailable
            THEN LET target == Other(source)
                     pct == ScrollPercentageOf(scrollTop[source],
                                scrollHeight[source], clientHeight[source])
                     top == TargetScrollTopOf(pct, scrollHeight[target],
                                clientHeight[target])
                 IN  /\ lastSource' = source
                     /\ outcome' = "pass"
                     /\ scrollPercentage' = pct
                     /\ targetScrollTop' = top
                     /\ \E p \in Snapped(target, top) :
                          /\ scrollTop' = [scrollTop EXCEPT ![target] = p]
                          /\ pendingScroll' =
                               [pendingScroll EXCEPT
                                  ![source] = "none",
                                  ![target] = IF p = scrollTop[target]
                                              THEN @
                                              ELSE Coalesce(@, "sync")]
            ELSE /\ UNCHANGED scrollTop
                 /\ NoPass(source, "missing")
                 /\ pendingScroll' = [pendingScroll EXCEPT ![source] = "none"]

\* ---------------------------------------------------------------- actions
\* onScroll={() => syncScroll(s)}: the pending scroll event of s is dispatched
\* to the handler of the last render (the second conjunct only caps the
\* number of pending timers)
OnScroll(s) ==
    /\ pendingScroll[s] # "none"
    /\ (LockHeld \/ timers < MaxTimers)
    /\ SyncScroll(s)
    /\ UNCHANGED <<lifecycle, ref, isScrolling, lastScrolled, snapMode, ioVars>>

\* variant: the callback runs but does not reset the state
ReleaseTimerKeepsLock ==
    /\ timers > 0
    /\ timers' = timers - 1
    /\ UNCHANGED <<lifecycle, ref, surfaceVars, isScrolling, nextIsScrolling,
                   pendingScroll, passVars, lastScrolled, snapMode, ioVars>>

\* `setTimeout(() => setIsScrolling(false), 50)` expires
ReleaseTimer ==
    /\ timers > 0
    /\ timers' = timers - 1
    /\ nextIsScrolling' = FALSE
    /\ UNCHANGED <<lifecycle, ref, surfaceVars, isScrolling, pendingScroll,
                   passVars, lastScrolled, snapMode, ioVars>>

\* React renders the component again: the handlers close over the new state
Render ==
    /\ lifecycle = "mounted"
    /\ isScrolling # nextIsScrolling
    /\ isScrolling' = nextIsScrolling
    /\ UNCHANGED <<lifecycle, ref, surfaceVars, nextIsScrolling, timers,
                   pendingScroll, passVars, lastScrolled, snapMode, ioVars>>

\* first commit: both refs are attached, the surfaces get their layout
Mount(esh, ech, psh, pch) ==
    /\ lifecycle = "constructed"
    /\ lifecycle' = "mounted"
    /\ ref' = [s \in Surface |-> TRUE]
    /\ scrollHeight' = [s \in Surface |-> IF s = "editor" THEN esh ELSE psh]
    /\ clientHeight' = [s \in Surface |-> IF s = "editor" THEN ech ELSE pch]
    /\ UNCHANGED <<scrollTop, isScrolling, nextIsScrolling, timers,
                   pendingScroll, passVars, lastScrolled, snapMode, ioVars>>

\* the component is removed: both refs are reset to null, nothing is
\* cancelled: the pending timers still expire, and a scroll event the browser
\* had already queued for a surface is still dispatched to its handler
Unmount ==
    /\ lifecycle = "mounted"
    /\ lifecycle' = "unmounted"
    /\ ref' = [s \in Surface |-> FALSE]
    /\ UNCHANGED <<surfaceVars, isScrolling, nextIsScrolling, timers,
                   pendingScroll, passVars, lastScrolled, snapMode, ioVars>>

\* the user scrolls surface s and leaves it at offset v (v = scrollTop[s]: a
\* scrollable surface is back where it was when its scroll event is
\* dispatched); the
\* offset the handler then reads may lie up to MaxOvershoot beyond
\* scrollHeight - clientHeight (elastic overscroll, sub-pixel ranges lost in
\* the rounded heights); syncScroll does not clamp what it reads
UserScroll(s, v) ==
    /\ lifecycle = "mounted"
    /\ v =< ScrollRange(s) + MaxOvershoot
    /\ v = scrollTop[s] => ScrollRange(s) > 0
    /\ scrollTop' = [scrollTop EXCEPT ![s] = v]
    /\ pendingScroll' = [pendingScroll EXCEPT ![s] = "user"]
    /\ lastScrolled' = s
    /\ IF v = scrollTop[s] THEN UNCHANGED passVars ELSE NoPass("none", "none")
    /\ UNCHANGED <<lifecycle, ref, scrollHeight, clientHeight, isScrolling,
                   nextIsScrolling, timers, snapMode, ioVars>>

\* the content of surface s is laid out again with a new height (the buffer
\* was edited); the browser clamps the offset to the new range
Layout(s, sh) ==
    /\ lifecycle = "mounted"
    /\ sh # scrollHeight[s]
    /\ scrollHeight' = [scrollHeight EXCEPT ![s] = sh]
    /\ LET range == Max(0, sh - clientHeight[s])
           top == Min(scrollTop[s], range)
       IN  /\ scrollTop' = [scrollTop EXCEPT ![s] = top]
           /\ pendingScroll' = [pendingScroll EXCEPT
                                  ![s] = IF top = scrollTop[s] THEN @ ELSE "user"]
    /\ NoPass("none", "none")
    /\ lastScrolled' = "none"
    /\ UNCHANGED <<lifecycle, ref, clientHeight, isScrolling,
                   nextIsScrolling, timers, snapMode, ioVars>>

\* ------------------------------------------- buffer, files, clipboard, themes

Texts == {DefaultMarkdown} \cup FileTexts \cup TypedTexts

\* titles of the toasts
Notices == {"none", "File uploaded", "Invalid file", "Copied!", "Copy failed",
            "Downloaded!", "Download failed"}

Themes == {"light", "dark"}

\* file names, as the character sequences String.prototype.endsWith works on
NotesMd == <<"n", "o", "t", "e", "s", ".", "m", "d">>
XMarkdown == <<"x", ".", "m", "a", "r", "k", "d", "o", "w", "n">>
PhotoPng == <<"p", "h", "o", "t", "o", ".", "p", "n", "g">>
Readme == <<"R", "E", "A", "D", "M", "E">>
DotMd == <<".", "m", "d">>
DotMarkdown == <<".", "m", "a", "r", "k", "d", "o", "w", "n">>

\* event.target.files?.[0] when the list of files is empty
NoFile == [name |-> <<>>, type |-> "", text |-> ""]

\* the files a user can pick: name, the MIME type the browser reports for it
\* ("" when it knows none for the extension) and the text readAsText yields
Files ==
    { [name |-> NotesMd, type |-> "text/markdown", text |-> "# Hi"],
      [name |-> NotesMd, type |-> "", text |-> "# Hi"],
      [name |-> XMarkdown, type |-> "text/markdown", text |-> "# Other"],
      [name |-> XMarkdown, type |-> "", text |-> "# Other"],
      [name |-> Readme, type |-> "text/markdown", text |-> "# Other"],
      [name |-> PhotoPng, type |-> "image/png", text |-> "PNG"] }

\* name.endsWith(suffix)
EndsWith(name, suffix) ==
    /\ Len(name) >= Len(suffix)
    /\ SubSeq(name, Len(name) - Len(suffix) + 1, Len(name)) = suffix

\* variant: every selected file is read, whatever its name and type
AcceptedAny(file) ==
    file # NoFile

\* the condition of handleFileUpload under which the file is read
Accepted(file) ==
    /\ file # NoFile
    /\ (file.type = "text/markdown" \/ EndsWith(file.name, DotMd))

\* FileReader reads in flight
PendingReads == reads["# Hi"] + reads["# Other"] + reads["PNG"]

\* variant: the toast of a catch block is replaced by rethrowing the error
CaughtRethrown(title) ==
    /\ uncaught' = TRUE
    /\ UNCHANGED lastNotice

\* the catch block of copyToClipboard and of downloadMarkdown: the error ends
\* in a destructive toast and goes no further
Caught(title) ==
    /\ lastNotice' = title
    /\ UNCHANGED uncaught

\* variant: the handler also resets the lock
EditReleasesLock(t) ==
    /\ lifecycle = "mounted"
    /\ t # markdown
    /\ markdown' = t
    /\ lastIntent' = t
    /\ nextIsScrolling' = FALSE
    /\ UNCHANGED <<reads, owed, lastNotice, clipboardWrites, uncaught,
                   editorTheme, previewTheme, lifecycle, ref, surfaceVars,
                   isScrolling, timers, pendingScroll, passVars, lastScrolled,
                   snapMode>>

\* onChange of the textarea: setMarkdown(e.target.value)
Edit(t) ==
    /\ lifecycle = "mounted"
    /\ t # markdown
    /\ markdown' = t
    /\ lastIntent' = t
    /\ UNCHANGED <<reads, owed, lastNotice, clipboardWrites, uncaught,
                   editorTheme, previewTheme, syncVars>>

\* onChange of the file input: an accepted file gets a FileReader whose
\* onload will run later, anything else the 'Invalid file' toast
HandleFileUpload(file) ==
    /\ lifecycle = "mounted"
    /\ IF Accepted(file)
       THEN /\ owed < MaxSelections
            /\ reads' = [reads EXCEPT ![file.text] = @ + 1]
            /\ owed' = owed + 1
            /\ lastIntent' = file.text
            /\ UNCHANGED lastNotice
       ELSE /\ lastNotice' = "Invalid file"
            /\ UNCHANGED <<reads, owed, lastIntent>>
    /\ UNCHANGED <<markdown, clipboardWrites, uncaught, editorTheme,
                   previewTheme, syncVars>>

\* reader.onload of a read of text t: setMarkdown(content) and the
\* 'File uploaded' toast; reads complete in any order
FileLoad(t) ==
    /\ reads[t] > 0
    /\ reads' = [reads EXCEPT ![t] = @ - 1]
    /\ owed' = owed - 1
    /\ markdown' = t
    /\ lastNotice' = "File uploaded"
    /\ UNCHANGED <<lastIntent, clipboardWrites, uncaught, editorTheme,
                   previewTheme, syncVars>>

\* a read of text t fails (the file was removed or became unreadable): the
\* reader has no onerror handler, nothing runs
ReadError(t) ==
    /\ reads[t] > 0
    /\ reads' = [reads EXCEPT ![t] = @ - 1]
    /\ UNCHANGED <<markdown, owed, lastNotice, lastIntent, clipboardWrites,
                   uncaught, editorTheme, previewTheme, syncVars>>

\* copyToClipboard up to its await: navigator.clipboard.writeText(markdown)
CopyStart ==
    /\ lifecycle = "mounted"
    /\ clipboardWrites < MaxClipboardWrites
    /\ clipboardWrites' = clipboardWrites + 1
    /\ UNCHANGED <<markdown, reads, owed, lastNotice, lastIntent, uncaught,
                   editorTheme, previewTheme, syncVars>>

\* the promise resolves: the 'Copied!' toast
CopyResolve ==
    /\ clipboardWrites > 0
    /\ clipboardWrites' = clipboardWrites - 1
    /\ lastNotice' = "Copied!"
    /\ UNCHANGED <<markdown, reads, owed, lastIntent, uncaught, editorTheme,
                   previewTheme, syncVars>>

\* the promise rejects (permission or platform denial): the catch block
CopyReject ==
    /\ clipboardWrites > 0
    /\ clipboardWrites' = clipboardWrites - 1
    /\ Caught("Copy failed")
    /\ UNCHANGED <<markdown, reads, owed, lastIntent, editorTheme,
                   previewTheme, syncVars>>

\* downloadMarkdown, the try block runs to its end: the 'Downloaded!' toast
DownloadOk ==
    /\ lifecycle = "mounted"
    /\ lastNotice' = "Downloaded!"
    /\ UNCHANGED <<markdown, reads, owed, lastIntent, clipboardWrites,
                   uncaught, editorTheme, previewTheme, syncVars>>

\* downloadMarkdown, building the artifact throws: the catch block
DownloadFail ==
    /\ lifecycle = "mounted"
    /\ Caught("Download failed")
    /\ UNCHANGED <<markdown, reads, owed, lastIntent, clipboardWrites,
                   editorTheme, previewTheme, syncVars>>

\* setEditorTheme((prev) => (prev === 'dark' ? 'light' : 'dark'))
ToggleEditorTheme ==
    /\ lifecycle = "mounted"
    /\ editorTheme' = IF editorTheme = "dark" THEN "light" ELSE "dark"
    /\ UNCHANGED <<markdown, reads, owed, lastNotice, lastIntent,
                   clipboardWrites, uncaught, previewTheme, syncVars>>

\* setPreviewTheme((prev) => (prev === 'dark' ? 'light' : 'dark'))
TogglePreviewTheme ==
    /\ lifecycle = "mounted"
    /\ previewTheme' = IF previewTheme = "dark" THEN "light" ELSE "dark"
    /\ UNCHANGED <<markdown, reads, owed, lastNotice, lastIntent,
                   clipboardWrites, uncaught, editorTheme, syncVars>>

\* --------------------------------------------------------- specifications

Init ==
    /\ lifecycle = "constructed"
    /\ ref = [s \in Surface |-> FALSE]
    /\ scrollTop = [s \in Surface |-> 0]
    /\ scrollHeight = [s \in Surface |-> ViewportHeight]
    /\ clientHeight = [s \in Surface |-> ViewportHeight]
    /\ isScrolling = FALSE
    /\ nextIsScrolling = FALSE
    /\ timers = 0
    /\ pendingScroll = [s \in Surface |-> "none"]
    /\ lastSource = "none"
    /\ outcome = "none"
    /\ scrollPercentage = <<0, 1>>
    /\ targetScrollTop = <<0, 1>>
    /\ lastScrolled = "none"
    /\ snapMode \in SnapModes
    /\ markdown = DefaultMarkdown
    /\ reads = [t \in FileTexts |-> 0]
    /\ owed = 0
    /\ lastNotice = "none"
    /\ lastIntent = DefaultMarkdown
    /\ clipboardWrites = 0
    /\ uncaught = FALSE
    /\ editorTheme = "dark"
    /\ previewTheme = "light"

Next ==
    \/ \E esh \in ScrollHeights, ech \in ClientHeights,
          psh \in ScrollHeights, pch \in ClientHeights : Mount(esh, ech, psh, pch)
    \/ \E s \in Surface : \E v \in Offsets : UserScroll(s, v)
    \/ \E s \in Surface : \E sh \in ScrollHeights : Layout(s, sh)
    \/ \E s \in Surface : OnScroll(s)
    \/ ReleaseTimer
    \/ Render
    \/ Unmount

Spec == Init /\ [][Next]_vars

\* the event loop eventually runs an expired timer callback
FairSpec == Spec /\ WF_vars(ReleaseTimer)

\* the file input on its own: selections, edits of the buffer and the reads
\* completing or failing in any order
UploadNext ==
    \/ \E esh \in ScrollHeights, ech \in ClientHeights,
          psh \in ScrollHeights, pch \in ClientHeights : Mount(esh, ech, psh, pch)
    \/ \E t \in TypedTexts : Edit(t)
    \/ \E file \in Files \cup {NoFile} : HandleFileUpload(file)
    \/ \E t \in FileTexts : FileLoad(t)
    \/ \E t \in FileTexts : ReadError(t)

UploadSpec == Init /\ [][UploadNext]_vars

\* the handlers of the toolbar, the textarea and the file input
Handler ==
    \/ \E t \in TypedTexts : Edit(t)
    \/ \E file \in {f \in Files : f.type \in {"text/markdown", "image/png"}
                                      /\ f.name \in {NotesMd, PhotoPng}} :
          HandleFileUpload(file)
    \/ \E t \in FileTexts : FileLoad(t)
    \/ CopyStart
    \/ CopyResolve
    \/ CopyReject
    \/ DownloadOk
    \/ DownloadFail
    \/ ToggleEditorTheme
    \/ TogglePreviewTheme

\* the whole editor on one layout: the handlers interleaved with the user
\* scrolling the editor of two equally tall scrollable surfaces
EditorNext ==
    \/ Mount(ViewportHeight + 1, ViewportHeight, ViewportHeight + 1, ViewportHeight)
    \/ \E v \in 0..1 : UserScroll("editor", v)
    \/ \E s \in Surface : OnScroll(s)
    \/ ReleaseTimer
    \/ Render
    \/ Handler

EditorInit == Init /\ snapMode = "down"

EditorSpec == EditorInit /\ [][EditorNext]_vars

TypeOK ==
    /\ markdown \in Texts
    /\ reads \in [FileTexts -> 0..MaxSelections]
    /\ owed \in 0..MaxSelections
    /\ lastNotice \in Notices
    /\ lastIntent \in Texts
    /\ clipboardWrites \in 0..MaxClipboardWrites
    /\ uncaught \in BOOLEAN
    /\ editorTheme \in Themes
    /\ previewTheme \in Themes
    /\ lifecycle \in {"constructed", "mounted", "unmounted"}
    /\ ref \in [Surface -> BOOLEAN]
    /\ scrollTop \in [Surface -> Offsets]
    /\ scrollHeight \in [Surface -> ScrollHeights]
    /\ clientHeight \in [Surface -> ClientHeights]
    /\ isScrolling \in BOOLEAN
    /\ nextIsScrolling \in BOOLEAN
    /\ timers \in 0..MaxTimers
    /\ pendingScroll \in [Surface -> {"none", "user", "sync"}]
    /\ lastSource \in Surface \cup {"none"}
    /\ outcome \in {"none", "suppressed", "kept", "missing", "pass"}
    /\ lastScrolled \in Surface \cup {"none"}
    /\ snapMode \in SnapModes
    /\ scrollPercentage[2] >= 1

\* ------------------------------------------------------------- properties
\* a step in which syncScroll(s) ran past the guard with both refs set
FullPass(s) == ~isScrolling /\ SurfacesAvailable /\ OnScroll(s)

\* C1: when the isScrolling that syncScroll reads is true, a call for either
\* source changes no scroll offset, leaves the lock as it is (true) and
\* schedules no timer
ReentrancyGuard ==
    [][\A s \in Surface :
         (isScrolling /\ OnScroll(s)) =>
            /\ scrollTop' = scrollTop
            /\ isScrolling' = TRUE
            /\ nextIsScrolling' = nextIsScrolling
            /\ timers' = timers]_vars

\* C1 witness: a call was suppressed while the lock was held and one release
\* timer was pending
ReentrancyGuardWitness ==
    /\ outcome = "suppressed"
    /\ isScrolling
    /\ nextIsScrolling
    /\ timers = 1

\* C2: the scroll event a surface emits because syncScroll wrote its offset
\* never starts a pass of its own (no lock taken, no timer, no offset written)
NoPingPong ==
    [][\A s \in Surface :
         (pendingScroll[s] = "sync" /\ OnScroll(s)) =>
            /\ scrollTop' = scrollTop
            /\ nextIsScrolling' = nextIsScrolling
            /\ timers' = timers]_vars

\* C3: a call made while a ref is null changes no offset, keeps the lock
\* and schedules no timer
MissingSurfaceNoOp ==
    [][\A s \in Surface :
         (~SurfacesAvailable /\ OnScroll(s)) =>
            /\ scrollTop' = scrollTop
            /\ nextIsScrolling' = nextIsScrolling
            /\ timers' = timers]_vars

\* C4: a call that finds the lock false leaves it set to true with its
\* release timer pending, and a lock that is true is eventually false
LockLifecycle ==
    /\ [][\A s \in Surface :
            (~isScrolling /\ OnScroll(s)) =>
               (nextIsScrolling' /\ timers' = timers + 1)]_vars
    /\ (nextIsScrolling ~> ~nextIsScrolling)

\* C4 witness: a pass has returned, the lock is set and its timer is pending
LockLifecycleWitness ==
    /\ outcome = "pass"
    /\ nextIsScrolling
    /\ timers > 0

\* C5: the lock is a boolean; it goes from false to true only in a syncScroll
\* call and from true to false only when a release timer expires
TwoStateMachine ==
    [][/\ nextIsScrolling' \in BOOLEAN
       /\ (~nextIsScrolling /\ nextIsScrolling') => \E s \in Surface : OnScroll(s)
       /\ (nextIsScrolling /\ ~nextIsScrolling') => ReleaseTimer]_vars

\* C5 witness: a pass ran and its lock was released again
TwoStateMachineWitness ==
    /\ outcome = "pass"
    /\ ~nextIsScrolling
    /\ ~isScrolling
    /\ timers = 0

\* C6: a full pass from either source hands scrollTo the value
\* sourceOffset / max(1, sourceRange) * max(0, targetRange), and the target
\* is at that offset when it is a whole pixel inside the target's range
\* (else within a pixel of it, or at the end of the range when the value
\* lies beyond it); offset 250 of range 500 maps to 500 of range 1000
ProportionalMapping ==
    [][\A s \in Surface :
         FullPass(s) =>
            LET t == Other(s)
                n == scrollTop[s] * Max(0, scrollHeight[t] - clientHeight[t])
                d == Max(1, scrollHeight[s] - clientHeight[s])
                example == TargetScrollTopOf(ScrollPercentageOf(250, 700, 200),
                                             1200, 200)
            IN  /\ targetScrollTop'[1] * d = n * targetScrollTop'[2]
                /\ targetScrollTop'[2] >= 1
                /\ (n % d = 0 /\ n \div d =< Max(0, scrollHeight[t] - clientHeight[t]))
                      => scrollTop'[t] = n \div d
                /\ IF n >= d * Max(0, scrollHeight[t] - clientHeight[t])
                   THEN scrollTop'[t] = Max(0, scrollHeight[t] - clientHeight[t])
                   ELSE /\ scrollTop'[t] * d > n - d
                        /\ scrollTop'[t] * d < n + d
                /\ example[1] = 500 * example[2]]_vars

\* C6 witness: a pass from the preview has put the editor at a positive
\* offset equal to the computed target
ProportionalMappingWitness ==
    /\ outcome = "pass"
    /\ lastSource = "preview"
    /\ targetScrollTop[1] > 0
    /\ scrollTop["editor"] * targetScrollTop[2] = targetScrollTop[1]

\* C7 as stated: after a pass whose source has scrollHeight = clientHeight
\* the scroll fraction is 0
ZeroRangeFractionIsZero ==
    \A s \in Surface :
        (outcome = "pass" /\ lastSource = s /\ scrollHeight[s] = clientHeight[s])
            => scrollPercentage[1] = 0

\* C7 amended: when the source has scrollHeight = clientHeight the divisor
\* is 1 and the fraction is the source offset itself, 0 exactly when the
\* offset is 0
ZeroRangeFractionIsOffset ==
    [][\A s \in Surface :
         (FullPass(s) /\ scrollHeight[s] = clientHeight[s]) =>
            /\ scrollPercentage' = <<scrollTop[s], 1>>
            /\ (scrollTop[s] = 0 => scrollPercentage'[1] = 0)]_vars

\* C7 witness: a pass ran from a source whose content exactly fits
ZeroRangeFractionWitness ==
    \E s \in Surface :
        /\ outcome = "pass"
        /\ lastSource = s
        /\ scrollHeight[s] = clientHeight[s]
        /\ scrollPercentage = <<0, 1>>

\* C8 as stated: a pass from a source at its full range, whatever that range,
\* puts the target at the target's full range
BoundaryAnyRange ==
    [][\A s \in Surface :
         (FullPass(s) /\ scrollTop[s] = scrollHeight[s] - clientHeight[s]) =>
            scrollTop'[Other(s)] = ScrollRange(Other(s))]_vars

\* C8 amended: a pass from a source at its full range, that range being at
\* least 1, puts the target exactly at the target's full range
BoundaryPositiveRange ==
    [][\A s \in Surface :
         (/\ FullPass(s)
          /\ scrollHeight[s] - clientHeight[s] >= 1
          /\ scrollTop[s] = scrollHeight[s] - clientHeight[s]) =>
            scrollTop'[Other(s)] = ScrollRange(Other(s))]_vars

\* C8 witness: after a pass from a source at 100% of a positive range the
\* target sits at its own positive full range
BoundaryWitness ==
    \E s \in Surface :
        /\ outcome = "pass"
        /\ lastSource = s
        /\ scrollHeight[s] - clientHeight[s] >= 1
        /\ scrollPercentage[1] = scrollPercentage[2]
        /\ ScrollRange(Other(s)) >= 1
        /\ scrollTop[Other(s)] = ScrollRange(Other(s))

\* C9: for a source with scrollHeight >= clientHeight and an offset within
\* its range the computed fraction lies in [0, 1]
FractionRange ==
    [][\A s \in Surface :
         (/\ FullPass(s)
          /\ scrollHeight[s] >= clientHeight[s]
          /\ 0 =< scrollTop[s]
          /\ scrollTop[s] =< scrollHeight[s] - clientHeight[s]) =>
            /\ scrollPercentage'[2] >= 1
            /\ 0 =< scrollPercentage'[1]
            /\ scrollPercentage'[1] =< scrollPercentage'[2]]_vars

\* C9 witness: a pass computed a fraction strictly between 0 and 1
FractionRangeWitness ==
    /\ outcome = "pass"
    /\ 0 < scrollPercentage[1]
    /\ scrollPercentage[1] < scrollPercentage[2]

\* C10: when the target's scrollHeight is below its clientHeight the target
\* offset computed and applied by a pass is 0, for every source fraction
ShortTargetFloor ==
    [][\A s \in Surface :
         (FullPass(s) /\ scrollHeight[Other(s)] < clientHeight[Other(s)]) =>
            /\ targetScrollTop'[1] = 0
            /\ scrollTop'[Other(s)] = 0]_vars

\* C10 witness: a pass with a positive source fraction computed target 0
\* for a target shorter than its viewport
ShortTargetFloorWitness ==
    \E s \in Surface :
        /\ outcome = "pass"
        /\ lastSource = s
        /\ scrollHeight[Other(s)] < clientHeight[Other(s)]
        /\ scrollPercentage[1] > 0
        /\ targetScrollTop[1] = 0
        /\ scrollTop[Other(s)] = 0

Settled ==
    /\ lifecycle = "mounted"
    /\ ~isScrolling
    /\ ~nextIsScrolling
    /\ timers = 0
    /\ \A s \in Surface : pendingScroll[s] = "none"

\* the offsets of surface t that are the proportional image of the offset of
\* surface s
ImageOf(s, t) ==
    Snapped(t, TargetScrollTopOf(
                   ScrollPercentageOf(scrollTop[s], scrollHeight[s],
                                      clientHeight[s]),
                   scrollHeight[t], clientHeight[t]))

\* C14: alignment: whenever the synchronizer is Idle, no scroll event is
\* pending and the user scrolled surface s last, both surfaces scrollable
\* and within their scrollable ranges, the other surface sits at the
\* proportional image of the offset of s
Alignment ==
    \A s \in Surface :
        (/\ Settled
         /\ lastScrolled = s
         /\ \A t \in Surface : ScrollRange(t) > 0 /\ scrollTop[t] =< ScrollRange(t))
           => scrollTop[Other(s)] \in ImageOf(s, Other(s))

\* C15: teardown: once the surfaces are unmounted, the callback of a release
\* timer that was scheduled before the teardown does not write the lock
\* (the last call that passed the guard ran a full pass, which needs both
\* surfaces, so every timer still pending was scheduled while mounted)
TeardownSafe ==
    [][(/\ lifecycle = "unmounted"
        /\ outcome \in {"pass", "kept"}
        /\ timers' = timers - 1)
          => nextIsScrolling' = nextIsScrolling]_vars

\* C18: timer/lock invariant: in every reachable state exactly one release
\* timer is pending when the lock (the value last written by setIsScrolling)
\* is true and none when it is false
TimerLockInvariant ==
    /\ nextIsScrolling => timers = 1
    /\ ~nextIsScrolling => timers = 0

\* a file whose name ends in .md or whose MIME type is text/markdown
MarkdownFile(file) ==
    EndsWith(file.name, DotMd) \/ file.type = "text/markdown"

\* C12: file load: selecting a file whose name ends in .md or whose MIME type
\* is text/markdown starts a read of it, and when the read completes the
\* buffer is the text of the file and the notice is 'File uploaded';
\* selecting any other file leaves the buffer unchanged, starts no read and
\* produces the notice 'Invalid file'
FileLoadContract ==
    [][/\ \A file \in Files :
             HandleFileUpload(file)
                => IF MarkdownFile(file)
                   THEN /\ reads'[file.text] = reads[file.text] + 1
                        /\ markdown' = markdown
                   ELSE /\ reads' = reads
                        /\ markdown' = markdown
                        /\ lastNotice' = "Invalid file"
       /\ \A t \in FileTexts :
             FileLoad(t) => markdown' = t /\ lastNotice' = "File uploaded"]_vars

\* notes.md was loaded into the buffer and a file selected after that was
\* rejected: the buffer still holds the text of notes.md
FileLoadContractWitness ==
    /\ markdown = "# Hi"
    /\ lastNotice = "Invalid file"
    /\ PendingReads = 0
    /\ owed = 0

\* C17: accepted file types: every selected file whose name ends in .md or
\* in .markdown is read rather than rejected
AcceptsAnnouncedTypes ==
    [][\A file \in Files :
          (/\ HandleFileUpload(file)
           /\ (EndsWith(file.name, DotMd) \/ EndsWith(file.name, DotMarkdown)))
             => /\ reads'[file.text] = reads[file.text] + 1
                /\ lastNotice' = lastNotice]_vars

\* C19: upload ordering: once no read is pending and every selection has
\* produced its notice, the buffer holds what the most recent user action
\* asked for: the text of the file selected last, or the later edit
UploadOrdering ==
    (PendingReads = 0 /\ owed = 0) => markdown = lastIntent

\* C20: upload response: once no read is pending, every file selection that
\* was handled has produced its notice
UploadResponse ==
    PendingReads = 0 => owed = 0

\* C13: error recovery: a rejected clipboard write and a failed download each
\* end in their failure notice, produced by the action itself; no error
\* leaves the handler, the buffer and the lock are unchanged, and nothing an
\* action's availability depends on is taken away
ErrorRecovery ==
    [][/\ CopyReject => lastNotice' = "Copy failed"
       /\ DownloadFail => lastNotice' = "Download failed"
       /\ (CopyReject \/ DownloadFail)
             => /\ ~uncaught'
                /\ markdown' = markdown
                /\ isScrolling' = isScrolling
                /\ nextIsScrolling' = nextIsScrolling
                /\ timers' = timers
                /\ lifecycle' = lifecycle
                /\ clipboardWrites' =< clipboardWrites
                /\ UNCHANGED <<reads, owed>>]_vars

\* a clipboard write was rejected while the lock was held and the buffer held
\* an edit
ErrorRecoveryWitness ==
    /\ lastNotice = "Copy failed"
    /\ markdown = "typed"
    /\ nextIsScrolling
    /\ isScrolling
    /\ timers = 1

\* a step of one of the handlers other than syncScroll
HandlerStep ==
    \/ \E t \in Texts : Edit(t)
    \/ \E file \in Files \cup {NoFile} : HandleFileUpload(file)
    \/ \E t \in FileTexts : FileLoad(t)
    \/ CopyStart
    \/ CopyResolve
    \/ CopyReject
    \/ DownloadOk
    \/ DownloadFail
    \/ ToggleEditorTheme
    \/ TogglePreviewTheme

RoundTrip ==
    [][(/\ lastSource = "editor"
        /\ outcome \in {"pass", "kept"}
        /\ ~nextIsScrolling
        /\ timers = 0
        /\ scrollTop["editor"] =< ScrollRange("editor")
        /\ FullPass("preview"))
          => scrollTop'["editor"] = scrollTop["editor"]]_vars

====
